---- MODULE Spec2Model ----
(***************************************************************************)
(* Secret Hitler rules engine, in its two implementations:                 *)
(*   - SecretHitlerGame (src/src/game) driven by GameOrchestrator.run_game *)
(*     (src/src/game_orchestrator.py);                                     *)
(*   - the legacy GameEngine (src/src/engine/game_state.py) driven by      *)
(*     GameController.run_game (src/src/main.py).                          *)
(***************************************************************************)
EXTENDS Integers, Sequences, FiniteSets, TLC

VARIABLES
    impl,               \* which program runs: "game" (GameOrchestrator) or "legacy" (GameController)
    seed,               \* seed of Python's random generator in this process
    num_players,        \* SecretHitlerGame.num_players / GameEngine.num_players
    state,              \* SecretHitlerGame.state : GameState
    engine,             \* GameController.engine : GameEngine
    pc,                 \* position of the driver inside run_game and the round
    round_num,          \* run_game's round_num
    policies,           \* the tokens drawn in the legislative session
    remaining,          \* _legislative_phase local: the 2 tokens passed on
    executive_action,   \* the executive action the enactment returned
    error               \* exception that left run_game, "none" if none

vars == <<impl, seed, num_players, state, engine, pc, round_num, policies, remaining,
          executive_action, error>>

----------------------------------------------------------------------------
(* Bounds of the exploration *)

MaxN == 7          \* games are set up with 5..MaxN players
MaxSeed == 0       \* seeds of the random generator explored: 0..MaxSeed
MaxRounds == 7     \* rounds of run_game explored
MaxChoices == 2    \* an agent picks among the first MaxChoices players offered

----------------------------------------------------------------------------
(* Python list helpers *)

Min(a, b) == IF a < b THEN a ELSE b

Range(s) == {s[i] : i \in DOMAIN s}

Repeat(x, k) == [i \in 1..k |-> x]

\* list.count(x)
Count(s, x) == Cardinality({i \in DOMAIN s : s[i] = x})

\* s[:k]
Take(s, k) == SubSeq(s, 1, Min(k, Len(s)))

\* s[k:]
Drop(s, k) == SubSeq(s, Min(k, Len(s)) + 1, Len(s))

\* list.remove(x): drops the first occurrence of x (x is in s)
RemoveFirst(s, x) ==
    LET i == CHOOSE i \in DOMAIN s : s[i] = x /\ \A j \in 1..(i - 1) : s[j] # x
    IN  SubSeq(s, 1, i - 1) \o SubSeq(s, i + 1, Len(s))

\* One outcome of random.shuffle: deal s into m piles round-robin and stack
\* the piles in order.
PileShuffle(s, m) ==
    LET n == Len(s)
        Key(i) == ((i - 1) % m) * n + (i - 1)
    IN  [k \in 1..n |->
            s[CHOOSE i \in 1..n : Cardinality({j \in 1..n : Key(j) < Key(i)}) = k - 1]]

\* random.shuffle(s) under seed k: the generator is deterministic given its
\* seed; seed k deals 4 + k piles
shuffle(k, s) == PileShuffle(s, 4 + k)

\* random.randint(a, b) under seed k
randint(k, a, b) == a + (k % (b - a + 1))

----------------------------------------------------------------------------
(* entities.py *)

NoPlayer == -1      \* None where a Player is expected

NoGovernment == [president |-> NoPlayer, chancellor |-> NoPlayer, is_elected |-> FALSE]

Player(i, role, party) ==
    [id |-> i, role |-> role, party |-> party, is_alive |-> TRUE, is_term_limited |-> FALSE]

is_hitler(p) == p.role = "hitler"

is_fascist(p) == p.party = "fascist"

NumPlayers(s) == Cardinality(DOMAIN s.players)     \* len(self.state.players)

get_current_president(s) == s.players[s.current_president_index]

RECURSIVE SkipDead(_, _)
SkipDead(players, idx) ==
    IF players[idx].is_alive THEN idx
    ELSE SkipDead(players, (idx + 1) % Cardinality(DOMAIN players))

\* advance_president that does not skip dead players
advance_president_no_skip(s) ==
    [s EXCEPT !.current_president_index = (s.current_president_index + 1) % NumPlayers(s)]

advance_president(s) ==
    [s EXCEPT !.current_president_index =
        SkipDead(s.players, (s.current_president_index + 1) % NumPlayers(s))]

----------------------------------------------------------------------------
(* rules.py *)

LIBERAL_POLICIES_TO_WIN == 5
FASCIST_POLICIES_TO_WIN == 6
ELECTION_TRACKER_MAX == 3
INITIAL_LIBERAL_POLICIES == 6
INITIAL_FASCIST_POLICIES == 11

ROLE_DISTRIBUTION ==
    5 :> [liberals |-> 3, fascists |-> 1, hitler |-> 1] @@
    6 :> [liberals |-> 4, fascists |-> 1, hitler |-> 1] @@
    7 :> [liberals |-> 4, fascists |-> 2, hitler |-> 1] @@
    8 :> [liberals |-> 5, fascists |-> 2, hitler |-> 1] @@
    9 :> [liberals |-> 5, fascists |-> 3, hitler |-> 1] @@
    10 :> [liberals |-> 6, fascists |-> 3, hitler |-> 1]

EXECUTIVE_ACTIONS ==
    5 :> (3 :> "peek" @@ 4 :> "execution" @@ 5 :> "execution") @@
    6 :> (3 :> "peek" @@ 4 :> "execution" @@ 5 :> "execution") @@
    7 :> (2 :> "investigate" @@ 3 :> "special_election" @@ 4 :> "execution" @@ 5 :> "execution") @@
    8 :> (2 :> "investigate" @@ 3 :> "special_election" @@ 4 :> "execution" @@ 5 :> "execution") @@
    9 :> (1 :> "investigate" @@ 2 :> "investigate" @@ 3 :> "special_election" @@
          4 :> "execution" @@ 5 :> "execution") @@
    10 :> (1 :> "investigate" @@ 2 :> "investigate" @@ 3 :> "special_election" @@
           4 :> "execution" @@ 5 :> "execution")

get_roles_for_player_count(k, n) ==
    LET dist == ROLE_DISTRIBUTION[n]
    IN  shuffle(k, Repeat("liberal", dist.liberals) \o Repeat("fascist", dist.fascists)
                   \o <<"hitler">>)

create_initial_draw_pile(k) ==
    shuffle(k, Repeat("liberal", INITIAL_LIBERAL_POLICIES)
               \o Repeat("fascist", INITIAL_FASCIST_POLICIES))

\* get_executive_action that reads the 7-8 player row for every game
get_executive_action_one_row(n, fascist_policies) ==
    IF n \notin DOMAIN EXECUTIVE_ACTIONS THEN "none"
    ELSE IF fascist_policies \in DOMAIN EXECUTIVE_ACTIONS[7]
         THEN EXECUTIVE_ACTIONS[7][fascist_policies]
         ELSE "none"

\* "none" stands for None
get_executive_action(n, fascist_policies) ==
    IF n \notin DOMAIN EXECUTIVE_ACTIONS THEN "none"
    ELSE IF fascist_policies \in DOMAIN EXECUTIVE_ACTIONS[n]
         THEN EXECUTIVE_ACTIONS[n][fascist_policies]
         ELSE "none"

\* get_party_from_role that puts Hitler in the liberal party
get_party_from_role_hitler_liberal(role) ==
    IF role = "fascist" THEN "fascist" ELSE "liberal"

get_party_from_role(role) ==
    IF role \in {"fascist", "hitler"} THEN "fascist" ELSE "liberal"

----------------------------------------------------------------------------
(* game_engine.py: SecretHitlerGame *)

\* the GameState _initialize_game returns for n players under seed k
\* (a player's name is its id)
initialize_game(k, n) ==
    LET roles == get_roles_for_player_count(k, n)
    IN  [ players |-> [i \in 0..(n - 1) |->
                          Player(i, roles[i + 1], get_party_from_role(roles[i + 1]))],
          liberal_policies |-> 0,
          fascist_policies |-> 0,
          election_tracker |-> 0,
          draw_pile |-> create_initial_draw_pile(k),
          discard_pile |-> <<>>,
          current_president_index |-> randint(k, 0, n - 1),
          current_government |-> NoGovernment,
          previous_president |-> NoPlayer,
          previous_chancellor |-> NoPlayer,
          phase |-> "nomination",
          round_number |-> 1,
          game_over |-> FALSE,
          winner |-> "none" ]

\* the ids of the players get_eligible_chancellors returns
get_eligible_chancellors(n, s) ==
    { i \in DOMAIN s.players :
        /\ s.players[i].is_alive
        /\ i # get_current_president(s).id
        /\ ~s.players[i].is_term_limited
        /\ ~(s.previous_chancellor # NoPlayer /\ i = s.previous_chancellor)
        /\ ~(s.previous_president # NoPlayer /\ i = s.previous_president /\ n > 5) }

end_game(s, w) ==
    [s EXCEPT !.game_over = TRUE, !.winner = w, !.phase = "game_over"]

advance_to_next_government(s) ==
    LET s1 == advance_president(s)
    IN  [s1 EXCEPT !.current_government = NoGovernment,
                   !.phase = "nomination",
                   !.round_number = @ + 1]

\* result of nominate_chancellor(chancellor): err is the exception raised
nominate_chancellor(n, s, chancellor) ==
    IF chancellor \notin get_eligible_chancellors(n, s)
    THEN [err |-> "ValueError", state |-> s]
    ELSE [err |-> "none",
          state |-> [s EXCEPT
              !.current_government =
                  [president |-> get_current_president(s).id,
                   chancellor |-> chancellor, is_elected |-> FALSE],
              !.phase = "election"]]

\* draw_policies that never merges the discard pile into the draw pile
draw_policies_no_merge(k, s, count) ==
    [drawn |-> Take(s.draw_pile, count),
     state |-> [s EXCEPT !.draw_pile = Drop(s.draw_pile, count)]]

\* draw_policies(count) under seed k: the tokens returned and the state left
draw_policies(k, s, count) ==
    LET reshuffle == Len(s.draw_pile) < count
        pile == IF reshuffle THEN shuffle(k, s.draw_pile \o s.discard_pile) ELSE s.draw_pile
    IN  [drawn |-> Take(pile, count),
         state |-> [s EXCEPT !.draw_pile = Drop(pile, count),
                             !.discard_pile = IF reshuffle THEN <<>> ELSE @]]

\* _chaos_policy that also puts the enacted token on the discard pile
chaos_policy_discarding(k, s) ==
    LET d == draw_policies(k, s, 1)
        policy == d.drawn[1]
        s1 == [d.state EXCEPT !.discard_pile = Append(@, policy)]
    IN  IF policy = "liberal"
        THEN LET s2 == [s1 EXCEPT !.liberal_policies = @ + 1]
             IN  IF s2.liberal_policies >= LIBERAL_POLICIES_TO_WIN
                 THEN end_game(s2, "liberal") ELSE s2
        ELSE LET s2 == [s1 EXCEPT !.fascist_policies = @ + 1]
             IN  IF s2.fascist_policies >= FASCIST_POLICIES_TO_WIN
                 THEN end_game(s2, "fascist") ELSE s2

\* the state _chaos_policy leaves
chaos_policy(k, s) ==
    LET d == draw_policies(k, s, 1)
        policy == d.drawn[1]
        s1 == d.state
    IN  IF policy = "liberal"
        THEN LET s2 == [s1 EXCEPT !.liberal_policies = @ + 1]
             IN  IF s2.liberal_policies >= LIBERAL_POLICIES_TO_WIN
                 THEN end_game(s2, "liberal") ELSE s2
        ELSE LET s2 == [s1 EXCEPT !.fascist_policies = @ + 1]
             IN  IF s2.fascist_policies >= FASCIST_POLICIES_TO_WIN
                 THEN end_game(s2, "fascist") ELSE s2

\* conduct_election whose chaos enactment leaves the tracker at 3
conduct_election_no_reset(k, s, votes) ==
    IF Len(votes) # NumPlayers(s)
    THEN [err |-> "ValueError", elected |-> FALSE, state |-> s]
    ELSE
    LET ja_votes == Count(votes, "ja")
        nein_votes == Len(votes) - ja_votes
        elected == ja_votes > nein_votes
    IN  IF elected
        THEN IF s.current_government = NoGovernment
             THEN [err |-> "AttributeError", elected |-> FALSE, state |-> s]
             ELSE
             LET s1 == [s EXCEPT !.current_government.is_elected = TRUE,
                                 !.election_tracker = 0]
             IN  IF s1.fascist_policies >= 3
                    /\ is_hitler(s1.players[s1.current_government.chancellor])
                 THEN [err |-> "none", elected |-> TRUE, state |-> end_game(s1, "fascist")]
                 ELSE [err |-> "none", elected |-> TRUE,
                       state |-> [s1 EXCEPT
                          !.players = [i \in DOMAIN s1.players |->
                              [s1.players[i] EXCEPT !.is_term_limited = FALSE]],
                          !.phase = "legislative_session"]]
        ELSE
             LET s1 == [s EXCEPT !.election_tracker = @ + 1]
                 s2 == IF s1.election_tracker >= ELECTION_TRACKER_MAX
                       THEN chaos_policy(k, s1)
                       ELSE s1
             IN  [err |-> "none", elected |-> FALSE,
                  state |-> advance_to_next_government(s2)]

\* conduct_election that ends the game for any fascist chancellor
conduct_election_any_fascist(k, s, votes) ==
    IF Len(votes) # NumPlayers(s)
    THEN [err |-> "ValueError", elected |-> FALSE, state |-> s]
    ELSE
    LET ja_votes == Count(votes, "ja")
        nein_votes == Len(votes) - ja_votes
        elected == ja_votes > nein_votes
    IN  IF elected
        THEN IF s.current_government = NoGovernment
             THEN [err |-> "AttributeError", elected |-> FALSE, state |-> s]
             ELSE
             LET s1 == [s EXCEPT !.current_government.is_elected = TRUE,
                                 !.election_tracker = 0]
             IN  IF s1.fascist_policies >= 3
                    /\ is_fascist(s1.players[s1.current_government.chancellor])
                 THEN [err |-> "none", elected |-> TRUE, state |-> end_game(s1, "fascist")]
                 ELSE [err |-> "none", elected |-> TRUE,
                       state |-> [s1 EXCEPT
                          !.players = [i \in DOMAIN s1.players |->
                              [s1.players[i] EXCEPT !.is_term_limited = FALSE]],
                          !.phase = "legislative_session"]]
        ELSE
             LET s1 == [s EXCEPT !.election_tracker = @ + 1]
                 s2 == IF s1.election_tracker >= ELECTION_TRACKER_MAX
                       THEN [chaos_policy(k, s1) EXCEPT !.election_tracker = 0]
                       ELSE s1
             IN  [err |-> "none", elected |-> FALSE,
                  state |-> advance_to_next_government(s2)]

\* conduct_election that goes on to the legislative session after Hitler's
\* election has ended the game
conduct_election_continuing(k, s, votes) ==
    IF Len(votes) # NumPlayers(s)
    THEN [err |-> "ValueError", elected |-> FALSE, state |-> s]
    ELSE
    LET ja_votes == Count(votes, "ja")
        nein_votes == Len(votes) - ja_votes
        elected == ja_votes > nein_votes
    IN  IF elected
        THEN IF s.current_government = NoGovernment
             THEN [err |-> "AttributeError", elected |-> FALSE, state |-> s]
             ELSE
             LET s1 == [s EXCEPT !.current_government.is_elected = TRUE,
                                 !.election_tracker = 0]
                 s2 == IF s1.fascist_policies >= 3
                          /\ is_hitler(s1.players[s1.current_government.chancellor])
                       THEN end_game(s1, "fascist") ELSE s1
             IN  [err |-> "none", elected |-> TRUE,
                  state |-> [s2 EXCEPT
                      !.players = [i \in DOMAIN s2.players |->
                          [s2.players[i] EXCEPT !.is_term_limited = FALSE]],
                      !.phase = "legislative_session"]]
        ELSE
             LET s1 == [s EXCEPT !.election_tracker = @ + 1]
                 s2 == IF s1.election_tracker >= ELECTION_TRACKER_MAX
                       THEN [chaos_policy(k, s1) EXCEPT !.election_tracker = 0]
                       ELSE s1
             IN  [err |-> "none", elected |-> FALSE,
                  state |-> advance_to_next_government(s2)]

\* conduct_election whose chaos enactment triggers the executive action of
\* the table
conduct_election_chaos_acts(k, s, votes) ==
    IF Len(votes) # NumPlayers(s)
    THEN [err |-> "ValueError", elected |-> FALSE, state |-> s]
    ELSE
    LET ja_votes == Count(votes, "ja")
        nein_votes == Len(votes) - ja_votes
        elected == ja_votes > nein_votes
    IN  IF elected
        THEN IF s.current_government = NoGovernment
             THEN [err |-> "AttributeError", elected |-> FALSE, state |-> s]
             ELSE
             LET s1 == [s EXCEPT !.current_government.is_elected = TRUE,
                                 !.election_tracker = 0]
             IN  IF s1.fascist_policies >= 3
                    /\ is_hitler(s1.players[s1.current_government.chancellor])
                 THEN [err |-> "none", elected |-> TRUE, state |-> end_game(s1, "fascist")]
                 ELSE [err |-> "none", elected |-> TRUE,
                       state |-> [s1 EXCEPT
                          !.players = [i \in DOMAIN s1.players |->
                              [s1.players[i] EXCEPT !.is_term_limited = FALSE]],
                          !.phase = "legislative_session"]]
        ELSE
             LET s1 == [s EXCEPT !.election_tracker = @ + 1]
                 s2 == IF s1.election_tracker >= ELECTION_TRACKER_MAX
                       THEN [chaos_policy(k, s1) EXCEPT !.election_tracker = 0]
                       ELSE s1
             IN  [err |-> "none", elected |-> FALSE,
                  state |-> IF /\ s2.fascist_policies > s.fascist_policies
                               /\ get_executive_action(NumPlayers(s), s2.fascist_policies)
                                      # "none"
                            THEN [s2 EXCEPT !.phase = "executive_action"]
                            ELSE advance_to_next_government(s2)]

\* result of conduct_election(votes) under seed k: err is the exception raised
conduct_election(k, s, votes) ==
    IF Len(votes) # NumPlayers(s)
    THEN [err |-> "ValueError", elected |-> FALSE, state |-> s]
    ELSE
    LET ja_votes == Count(votes, "ja")
        nein_votes == Len(votes) - ja_votes
        elected == ja_votes > nein_votes
    IN  IF elected
        THEN IF s.current_government = NoGovernment
             THEN [err |-> "AttributeError", elected |-> FALSE, state |-> s]
             ELSE
             LET s1 == [s EXCEPT !.current_government.is_elected = TRUE,
                                 !.election_tracker = 0]
             IN  IF s1.fascist_policies >= 3
                    /\ is_hitler(s1.players[s1.current_government.chancellor])
                 THEN [err |-> "none", elected |-> TRUE, state |-> end_game(s1, "fascist")]
                 ELSE [err |-> "none", elected |-> TRUE,
                       state |-> [s1 EXCEPT
                          !.players = [i \in DOMAIN s1.players |->
                              [s1.players[i] EXCEPT !.is_term_limited = FALSE]],
                          !.phase = "legislative_session"]]
        ELSE
             LET s1 == [s EXCEPT !.election_tracker = @ + 1]
                 s2 == IF s1.election_tracker >= ELECTION_TRACKER_MAX
                       THEN [chaos_policy(k, s1) EXCEPT !.election_tracker = 0]
                       ELSE s1
             IN  [err |-> "none", elected |-> FALSE,
                  state |-> advance_to_next_government(s2)]

\* president_discard_policy that puts the token on the discard pile before
\* it validates the hand
president_discard_policy_append_first(s, pols, discarded) ==
    LET s0 == [s EXCEPT !.discard_pile = Append(@, discarded)]
    IN  IF Len(pols) # 3 THEN [err |-> "ValueError", remaining |-> <<>>, state |-> s0]
        ELSE IF discarded \notin Range(pols)
        THEN [err |-> "ValueError", remaining |-> <<>>, state |-> s0]
        ELSE
        LET kept == SelectSeq(pols, LAMBDA p : p # discarded \/ Count(pols, p) > 1)
            rest == IF discarded \in Range(kept) THEN RemoveFirst(kept, discarded) ELSE kept
        IN  [err |-> "none", remaining |-> rest, state |-> s0]

\* president_discard_policy that filters every token of the discarded kind
president_discard_policy_filter_all(s, pols, discarded) ==
    IF Len(pols) # 3 THEN [err |-> "ValueError", remaining |-> <<>>, state |-> s]
    ELSE IF discarded \notin Range(pols)
    THEN [err |-> "ValueError", remaining |-> <<>>, state |-> s]
    ELSE [err |-> "none", remaining |-> SelectSeq(pols, LAMBDA p : p # discarded),
          state |-> [s EXCEPT !.discard_pile = Append(@, discarded)]]

\* result of president_discard_policy(policies, discarded)
president_discard_policy(s, pols, discarded) ==
    IF Len(pols) # 3 THEN [err |-> "ValueError", remaining |-> <<>>, state |-> s]
    ELSE IF discarded \notin Range(pols)
    THEN [err |-> "ValueError", remaining |-> <<>>, state |-> s]
    ELSE
    LET kept == SelectSeq(pols, LAMBDA p : p # discarded \/ Count(pols, p) > 1)
        rest == IF discarded \in Range(kept) THEN RemoveFirst(kept, discarded) ELSE kept
    IN  [err |-> "none", remaining |-> rest,
         state |-> [s EXCEPT !.discard_pile = Append(@, discarded)]]

\* chancellor_enact_policy that drops the other token instead of discarding it
chancellor_enact_policy_no_discard(n, s, pols, enacted) ==
    IF Len(pols) # 2 THEN [err |-> "ValueError", action |-> "none", state |-> s]
    ELSE IF enacted \notin Range(pols)
    THEN [err |-> "ValueError", action |-> "none", state |-> s]
    ELSE
    LET rest == RemoveFirst(pols, enacted)
        discarded == IF rest # <<>> THEN rest[1] ELSE enacted
        s1 == s
        s2 == IF enacted = "liberal"
              THEN LET t == [s1 EXCEPT !.liberal_policies = @ + 1]
                   IN  IF t.liberal_policies >= LIBERAL_POLICIES_TO_WIN
                       THEN end_game(t, "liberal") ELSE t
              ELSE LET t == [s1 EXCEPT !.fascist_policies = @ + 1]
                   IN  IF t.fascist_policies >= FASCIST_POLICIES_TO_WIN
                       THEN end_game(t, "fascist") ELSE t
    IN  IF s2.current_government = NoGovernment
        THEN [err |-> "AttributeError", action |-> "none", state |-> s2]
        ELSE
        LET s3 == [s2 EXCEPT
                    !.previous_president = s2.current_government.president,
                    !.previous_chancellor = s2.current_government.chancellor,
                    !.players[s2.current_government.chancellor].is_term_limited = TRUE]
            action == IF enacted = "fascist"
                      THEN get_executive_action(n, s3.fascist_policies)
                      ELSE "none"
        IN  IF action # "none"
            THEN [err |-> "none", action |-> action,
                  state |-> [s3 EXCEPT !.phase = "executive_action"]]
            ELSE [err |-> "none", action |-> action,
                  state |-> advance_to_next_government(s3)]

\* result of chancellor_enact_policy(policies, enacted); action "none" is None
chancellor_enact_policy(n, s, pols, enacted) ==
    IF Len(pols) # 2 THEN [err |-> "ValueError", action |-> "none", state |-> s]
    ELSE IF enacted \notin Range(pols)
    THEN [err |-> "ValueError", action |-> "none", state |-> s]
    ELSE
    LET rest == RemoveFirst(pols, enacted)
        discarded == IF rest # <<>> THEN rest[1] ELSE enacted
        s1 == [s EXCEPT !.discard_pile = Append(@, discarded)]
        s2 == IF enacted = "liberal"
              THEN LET t == [s1 EXCEPT !.liberal_policies = @ + 1]
                   IN  IF t.liberal_policies >= LIBERAL_POLICIES_TO_WIN
                       THEN end_game(t, "liberal") ELSE t
              ELSE LET t == [s1 EXCEPT !.fascist_policies = @ + 1]
                   IN  IF t.fascist_policies >= FASCIST_POLICIES_TO_WIN
                       THEN end_game(t, "fascist") ELSE t
    IN  IF s2.current_government = NoGovernment
        THEN [err |-> "AttributeError", action |-> "none", state |-> s2]
        ELSE
        LET s3 == [s2 EXCEPT
                    !.previous_president = s2.current_government.president,
                    !.previous_chancellor = s2.current_government.chancellor,
                    !.players[s2.current_government.chancellor].is_term_limited = TRUE]
            action == IF enacted = "fascist"
                      THEN get_executive_action(n, s3.fascist_policies)
                      ELSE "none"
        IN  IF action # "none"
            THEN [err |-> "none", action |-> action,
                  state |-> [s3 EXCEPT !.phase = "executive_action"]]
            ELSE [err |-> "none", action |-> action,
                  state |-> advance_to_next_government(s3)]

\* execute_player without the check for Hitler
execute_player_unchecked(s, target) ==
    advance_to_next_government([s EXCEPT !.players[target].is_alive = FALSE])

execute_player(s, target) ==
    LET s1 == [s EXCEPT !.players[target].is_alive = FALSE]
        s2 == IF is_hitler(s1.players[target]) THEN end_game(s1, "liberal") ELSE s1
    IN  advance_to_next_government(s2)

\* investigate_player(target): the party returned and the state left
investigate_player(s, target) ==
    [party |-> s.players[target].party, state |-> advance_to_next_government(s)]

\* peek_policies(): the tokens returned and the state left
peek_policies(s) ==
    [peeked |-> IF Len(s.draw_pile) >= 3 THEN Take(s.draw_pile, 3) ELSE s.draw_pile,
     state |-> advance_to_next_government(s)]

\* special_election that leaves the president to the rotation
special_election_ignored(s, nominee) ==
    [s EXCEPT !.phase = "nomination",
              !.round_number = @ + 1]

special_election(s, nominee) ==
    [s EXCEPT !.current_president_index = nominee,
              !.phase = "nomination",
              !.round_number = @ + 1]

----------------------------------------------------------------------------
(* game_orchestrator.py: GameOrchestrator *)

SAFETY_LIMIT == 100     \* run_game: round_num < 100

Living(s) == {i \in DOMAIN s.players : s.players[i].is_alive}

\* GameOrchestrator.__init__: SecretHitlerGame(player_names)
NoEngine == [absent |-> TRUE]    \* no GameController in this process

Init ==
    /\ impl = "game"
    /\ engine = NoEngine
    /\ seed \in 0..MaxSeed
    /\ num_players \in 5..MaxN
    /\ state = initialize_game(seed, num_players)
    /\ pc = "loop"
    /\ round_num = 0
    /\ policies = <<>>
    /\ remaining = <<>>
    /\ executive_action = "none"
    /\ error = "none"

\* the players an agent's get_decision can return out of the options: the
\* agents are external, their choice is any option explored
Choices(options) == {x \in options : Cardinality({y \in options : y < x}) < MaxChoices}

\* run_game: the loop is left, _end_game reports the result
EndGame ==
    /\ pc = "loop"
    /\ state.game_over \/ round_num >= SAFETY_LIMIT
    /\ pc' = "done"
    /\ UNCHANGED <<impl, seed, engine, num_players, state, round_num, policies, remaining, executive_action, error>>

\* run_game: the loop condition holds and the next round starts;
\* _nomination_phase, then the phase test of _run_round
NominationPhase ==
    /\ pc = "loop"
    /\ ~state.game_over /\ round_num < SAFETY_LIMIT
    /\ round_num < MaxRounds
    /\ round_num' = round_num + 1
    /\ LET eligible == get_eligible_chancellors(num_players, state)
       IN  IF eligible = {}
           THEN state' = advance_president(state)
           ELSE \E decision \in Choices(eligible) :
                    state' = nominate_chancellor(num_players, state, decision).state
    /\ pc' = IF state'.phase = "election" THEN "election" ELSE "loop"
    /\ UNCHANGED <<impl, seed, engine, num_players, policies, remaining, executive_action, error>>

\* _election_phase: one ballot per living player, then conduct_election
ElectionPhase ==
    /\ pc = "election"
    /\ \E ja \in 0..Cardinality(Living(state)) :
        LET votes == Repeat("ja", ja) \o Repeat("nein", Cardinality(Living(state)) - ja)
            r == conduct_election(seed, state, votes)
        IN  /\ state' = r.state
            /\ error' = r.err
            /\ pc' = IF r.err # "none" THEN "crashed"
                     ELSE IF r.elected /\ r.state.phase = "legislative_session"
                          THEN "draw" ELSE "loop"
    /\ UNCHANGED <<impl, seed, engine, num_players, round_num, policies, remaining, executive_action>>

\* _legislative_phase: draw_policies(3)
LegislativeDraw ==
    /\ pc = "draw"
    /\ LET d == draw_policies(seed, state, 3)
       IN  /\ policies' = d.drawn
           /\ state' = d.state
    /\ pc' = "discard"
    /\ UNCHANGED <<impl, seed, engine, num_players, round_num, remaining, executive_action, error>>

\* _legislative_phase: the president's choice, president_discard_policy
LegislativeDiscard ==
    /\ pc = "discard"
    /\ \E discard \in Range(policies) :
        LET r == president_discard_policy(state, policies, discard)
        IN  /\ remaining' = r.remaining
            /\ state' = r.state
    /\ pc' = "enact"
    /\ UNCHANGED <<impl, seed, engine, num_players, round_num, policies, executive_action, error>>

\* _legislative_phase: the chancellor's choice, chancellor_enact_policy,
\* then the phase test of _run_round
LegislativeEnact ==
    /\ pc = "enact"
    /\ \E enact \in Range(remaining) :
        LET r == chancellor_enact_policy(num_players, state, remaining, enact)
            run == r.action # "none" /\ r.state.phase = "executive_action"
        IN  /\ state' = r.state
            /\ executive_action' = IF run THEN r.action ELSE "none"
            /\ pc' = IF run THEN "executive" ELSE "loop"
    /\ policies' = <<>>
    /\ remaining' = <<>>
    /\ UNCHANGED <<impl, seed, engine, num_players, round_num, error>>

ExecutiveTargets(s) ==
    {i \in Living(s) : i # s.current_government.president}

\* _executive_action_phase, action == "execution"
ExecutionAction ==
    /\ pc = "executive"
    /\ executive_action = "execution"
    /\ \E target \in Choices(ExecutiveTargets(state)) : state' = execute_player(state, target)
    /\ pc' = "loop"
    /\ executive_action' = "none"
    /\ UNCHANGED <<impl, seed, engine, num_players, round_num, policies, remaining, error>>

\* _executive_action_phase, action == "investigate"
InvestigateAction ==
    /\ pc = "executive"
    /\ executive_action = "investigate"
    /\ \E target \in Choices(ExecutiveTargets(state)) : state' = investigate_player(state, target).state
    /\ pc' = "loop"
    /\ executive_action' = "none"
    /\ UNCHANGED <<impl, seed, engine, num_players, round_num, policies, remaining, error>>

\* _executive_action_phase, any other action: no branch handles it
UnhandledAction ==
    /\ pc = "executive"
    /\ executive_action \notin {"execution", "investigate"}
    /\ pc' = "loop"
    /\ executive_action' = "none"
    /\ UNCHANGED <<impl, seed, engine, num_players, state, round_num, policies, remaining, error>>

Next ==
    \/ NominationPhase
    \/ ElectionPhase
    \/ LegislativeDraw
    \/ LegislativeDiscard
    \/ LegislativeEnact
    \/ ExecutionAction
    \/ InvestigateAction
    \/ UnhandledAction
    \/ EndGame

Spec == Init /\ [][Next]_vars

----------------------------------------------------------------------------
(* engine/game_state.py: the legacy GameEngine.  A player's name is its id; *)
(* player_names is a Python list, president_index counts from 0.            *)

NoGame == [absent |-> TRUE]      \* no SecretHitlerGame in this process

role_distribution ==
    5 :> [Loyalist |-> 3, Spy |-> 1, MasterSpy |-> 1] @@
    6 :> [Loyalist |-> 4, Spy |-> 1, MasterSpy |-> 1] @@
    7 :> [Loyalist |-> 4, Spy |-> 2, MasterSpy |-> 1] @@
    8 :> [Loyalist |-> 5, Spy |-> 2, MasterSpy |-> 1] @@
    9 :> [Loyalist |-> 5, Spy |-> 3, MasterSpy |-> 1] @@
    10 :> [Loyalist |-> 6, Spy |-> 3, MasterSpy |-> 1]

\* GameEngine.__init__ and setup_game for n players under seed k
setup_game(k, n) ==
    LET dist == role_distribution[n]
        roles_list == shuffle(k, Repeat("Loyalist", dist.Loyalist) \o Repeat("Spy", dist.Spy)
                                 \o Repeat("Master Spy", dist.MasterSpy))
    IN  [ player_names |-> [i \in 1..n |-> i - 1],
          num_players |-> n,
          roles |-> [i \in 0..(n - 1) |-> roles_list[i + 1]],
          party_membership |-> [i \in 0..(n - 1) |->
                IF roles_list[i + 1] = "Loyalist" THEN "Loyalist" ELSE "Spy"],
          deck |-> shuffle(k, Repeat("Blue", 6) \o Repeat("Red", 11)),
          discard_pile |-> <<>>,
          blue_policies_enacted |-> 0,
          red_policies_enacted |-> 0,
          election_tracker |-> 0,
          president_index |-> 0,
          chancellor |-> NoPlayer,
          previous_president |-> NoPlayer,
          previous_chancellor |-> NoPlayer,
          game_over |-> FALSE,
          winner |-> "none" ]

get_president(e) == e.player_names[e.president_index + 1]

GameEngine_advance_president(e) ==
    [e EXCEPT !.president_index = (e.president_index + 1) % Len(e.player_names)]

\* GameEngine.draw_policies(num) under seed k: the tokens returned and the engine left
GameEngine_draw_policies(k, e, num) ==
    LET reshuffle == Len(e.deck) < num
        pile == IF reshuffle THEN shuffle(k, e.deck \o e.discard_pile) ELSE e.deck
    IN  [drawn |-> Take(pile, num),
         engine |-> [e EXCEPT !.deck = Drop(pile, num),
                              !.discard_pile = IF reshuffle THEN <<>> ELSE @]]

\* GameEngine.get_executive_action(); "none" is None
GameEngine_get_executive_action(e) ==
    LET n == e.num_players
        r == e.red_policies_enacted
    IN  IF r = 6 THEN "none"
        ELSE IF n <= 6
        THEN (IF r = 3 THEN "policy_peek"
              ELSE IF r = 4 THEN "execution"
              ELSE IF r = 5 THEN "execution" ELSE "none")
        ELSE IF n <= 8
        THEN (IF r = 2 THEN "investigate_loyalty"
              ELSE IF r = 3 THEN "special_election"
              ELSE IF r = 4 THEN "execution"
              ELSE IF r = 5 THEN "execution" ELSE "none")
        ELSE (IF r = 1 THEN "investigate_loyalty"
              ELSE IF r = 2 THEN "investigate_loyalty"
              ELSE IF r = 3 THEN "special_election"
              ELSE IF r = 4 THEN "execution"
              ELSE IF r = 5 THEN "execution" ELSE "none")

check_win_conditions(e) ==
    IF e.blue_policies_enacted >= 5
    THEN [e EXCEPT !.game_over = TRUE, !.winner = "Loyalists"]
    ELSE IF e.red_policies_enacted >= 6
    THEN [e EXCEPT !.game_over = TRUE, !.winner = "Spies"]
    ELSE e

check_chancellor_win(e, chancellor_name) ==
    IF e.red_policies_enacted >= 3 /\ e.roles[chancellor_name] = "Master Spy"
    THEN [e EXCEPT !.game_over = TRUE, !.winner = "Spies"]
    ELSE e

\* GameEngine.enact_policy(policy): the action returned and the engine left
enact_policy(e, policy) ==
    LET e1 == IF policy = "Blue"
              THEN [e EXCEPT !.blue_policies_enacted = @ + 1]
              ELSE [e EXCEPT !.red_policies_enacted = @ + 1]
        e2 == check_win_conditions(e1)
    IN  [action |-> IF ~e2.game_over /\ policy = "Red"
                    THEN GameEngine_get_executive_action(e2) ELSE "none",
         engine |-> e2]

kill_player(e, player_name) ==
    IF player_name \notin Range(e.player_names) THEN e
    ELSE
    LET e1 == [e EXCEPT !.player_names = RemoveFirst(@, player_name)]
        e2 == IF e1.president_index >= Len(e1.player_names)
              THEN [e1 EXCEPT !.president_index = 0] ELSE e1
    IN  IF e2.roles[player_name] = "Master Spy"
        THEN [e2 EXCEPT !.game_over = TRUE, !.winner = "Loyalists"]
        ELSE e2

----------------------------------------------------------------------------
(* main.py: the legacy GameController *)

\* eligible_chancellors that bars the previous president at every table size
eligible_chancellors_strict(e) ==
    LET president_name == get_president(e)
        first == {p \in Range(e.player_names) :
                    p # president_name /\ p # e.previous_chancellor}
    IN  IF e.previous_president # NoPlayer
        THEN first \ {e.previous_president}
        ELSE first

\* play_round: the eligible_chancellors list, as a set of names
eligible_chancellors(e) ==
    LET president_name == get_president(e)
        first == {p \in Range(e.player_names) :
                    p # president_name /\ p # e.previous_chancellor}
    IN  IF Len(e.player_names) > 5 /\ e.previous_president # NoPlayer
        THEN first \ {e.previous_president}
        ELSE first

\* play_round: the vote passes
vote_passes(ja_votes, e) == 2 * ja_votes > Len(e.player_names)

\* GameController.__init__: GameEngine(player_names)
InitLegacy ==
    /\ impl = "legacy"
    /\ seed \in 0..MaxSeed
    /\ num_players \in 5..MaxN
    /\ engine = setup_game(seed, num_players)
    /\ state = NoGame
    /\ pc = "legacy_loop"
    /\ round_num = 1
    /\ policies = <<>>
    /\ remaining = <<>>
    /\ executive_action = "none"
    /\ error = "none"

\* run_game: the loop is left
LegacyEndGame ==
    /\ pc = "legacy_loop"
    /\ engine.game_over
    /\ pc' = "legacy_done"
    /\ UNCHANGED <<impl, seed, num_players, state, engine, round_num, policies, remaining,
                   executive_action, error>>

\* run_game: the loop condition holds; play_round up to the outcome of the
\* vote: nomination, vote, and either the chancellor win check or the
\* election tracker with its chaos enactment
LegacyElection ==
    /\ pc = "legacy_loop"
    /\ ~engine.game_over
    /\ round_num <= MaxRounds
    /\ LET eligible == eligible_chancellors(engine)
       IN  IF eligible = {}
           THEN /\ error' = "IndexError"
                /\ pc' = "legacy_crashed"
                /\ UNCHANGED <<engine, round_num>>
           ELSE \E chancellor_nominee \in Choices(eligible),
                   ja_votes \in 0..Len(engine.player_names) :
                IF vote_passes(ja_votes, engine)
                THEN LET e1 == check_chancellor_win(
                                 [engine EXCEPT !.previous_president = get_president(engine),
                                                !.previous_chancellor = chancellor_nominee,
                                                !.chancellor = chancellor_nominee,
                                                !.election_tracker = 0],
                                 chancellor_nominee)
                     IN  /\ engine' = e1
                         /\ pc' = IF e1.game_over THEN "legacy_loop" ELSE "legacy_draw"
                         /\ round_num' = IF e1.game_over THEN round_num + 1 ELSE round_num
                         /\ error' = error
                ELSE LET e1 == [engine EXCEPT !.election_tracker = @ + 1,
                                              !.chancellor = NoPlayer]
                         e2 == IF e1.election_tracker = 3
                               THEN LET d == GameEngine_draw_policies(seed, e1, 1)
                                        top_policy == d.drawn[1]
                                    IN  [enact_policy(d.engine, top_policy).engine EXCEPT
                                            !.election_tracker = 0,
                                            !.previous_president = NoPlayer,
                                            !.previous_chancellor = NoPlayer]
                               ELSE e1
                     IN  /\ engine' = GameEngine_advance_president(e2)
                         /\ pc' = "legacy_loop"
                         /\ round_num' = round_num + 1
                         /\ error' = error
    /\ UNCHANGED <<impl, seed, num_players, state, policies, remaining, executive_action>>

\* legislative_session: draw_policies(3)
LegacyDraw ==
    /\ pc = "legacy_draw"
    /\ LET d == GameEngine_draw_policies(seed, engine, 3)
       IN  /\ policies' = d.drawn
           /\ engine' = d.engine
    /\ pc' = "legacy_discard"
    /\ UNCHANGED <<impl, seed, num_players, state, round_num, remaining, executive_action, error>>

\* legislative_session: the president discards one token
LegacyDiscard ==
    /\ pc = "legacy_discard"
    /\ \E discarded \in Range(policies) :
        /\ policies' = RemoveFirst(policies, discarded)
        /\ engine' = [engine EXCEPT !.discard_pile = Append(@, discarded)]
    /\ pc' = "legacy_enact"
    /\ UNCHANGED <<impl, seed, num_players, state, round_num, remaining, executive_action, error>>

\* legislative_session: the chancellor enacts one token, the other is
\* discarded; without executive action the president advances and the
\* round is over
LegacyEnact ==
    /\ pc = "legacy_enact"
    /\ \E enacted \in Range(policies) :
        LET rest == RemoveFirst(policies, enacted)
            r == enact_policy([engine EXCEPT !.discard_pile = Append(@, rest[1])], enacted)
        IN  IF r.action # "none"
            THEN /\ engine' = r.engine
                 /\ executive_action' = r.action
                 /\ pc' = "legacy_executive"
                 /\ round_num' = round_num
            ELSE /\ engine' = GameEngine_advance_president(r.engine)
                 /\ executive_action' = "none"
                 /\ pc' = "legacy_loop"
                 /\ round_num' = round_num + 1
    /\ policies' = <<>>
    /\ UNCHANGED <<impl, seed, num_players, state, remaining, error>>

\* handle_executive_action: the targets offered to the president
targets(e) == {p \in Range(e.player_names) : p # get_president(e)}

\* handle_executive_action "policy_peek", then advance_president
LegacyPeek ==
    /\ pc = "legacy_executive"
    /\ executive_action = "policy_peek"
    /\ engine' = GameEngine_advance_president(engine)
    /\ pc' = "legacy_loop"
    /\ round_num' = round_num + 1
    /\ executive_action' = "none"
    /\ UNCHANGED <<impl, seed, num_players, state, policies, remaining, error>>

\* handle_executive_action "execution", then advance_president
LegacyExecution ==
    /\ pc = "legacy_executive"
    /\ executive_action = "execution"
    /\ \E target \in Choices(targets(engine)) :
        engine' = GameEngine_advance_president(kill_player(engine, target))
    /\ pc' = "legacy_loop"
    /\ round_num' = round_num + 1
    /\ executive_action' = "none"
    /\ UNCHANGED <<impl, seed, num_players, state, policies, remaining, error>>

\* handle_executive_action "investigate_loyalty", then advance_president
LegacyInvestigate ==
    /\ pc = "legacy_executive"
    /\ executive_action = "investigate_loyalty"
    /\ engine' = GameEngine_advance_president(engine)
    /\ pc' = "legacy_loop"
    /\ round_num' = round_num + 1
    /\ executive_action' = "none"
    /\ UNCHANGED <<impl, seed, num_players, state, policies, remaining, error>>

\* the position of name in player_names, counted from 0 (list.index)
IndexOf(names, name) == (CHOOSE i \in DOMAIN names : names[i] = name) - 1

\* handle_special_election that lets the rotation go on
handle_special_election_ignored(e, target) == e

\* handle_executive_action "special_election": the engine left for target
handle_special_election(e, target) ==
    LET new_index == IndexOf(e.player_names, target)
    IN  [e EXCEPT !.president_index = (new_index - 1) % Len(e.player_names)]

\* handle_executive_action "special_election", then advance_president
LegacySpecialElection ==
    /\ pc = "legacy_executive"
    /\ executive_action = "special_election"
    /\ \E target \in Choices(targets(engine)) :
        engine' = GameEngine_advance_president(handle_special_election(engine, target))
    /\ pc' = "legacy_loop"
    /\ round_num' = round_num + 1
    /\ executive_action' = "none"
    /\ UNCHANGED <<impl, seed, num_players, state, policies, remaining, error>>

NextLegacy ==
    \/ LegacyElection
    \/ LegacyDraw
    \/ LegacyDiscard
    \/ LegacyEnact
    \/ LegacyPeek
    \/ LegacyExecution
    \/ LegacyInvestigate
    \/ LegacySpecialElection
    \/ LegacyEndGame

SpecLegacy == InitLegacy /\ [][NextLegacy]_vars

----------------------------------------------------------------------------
(* Both programs *)

InitAll == Init \/ InitLegacy

NextAll == Next \/ NextLegacy

SpecAll == InitAll /\ [][NextAll]_vars

----------------------------------------------------------------------------
(* SecretHitlerGame called directly.  The orchestrator keeps the game      *)
(* object (self.game); once run_game has returned with the game over, a    *)
(* caller invokes one more engine operation on it.                         *)

GameIsOver == impl = "game" /\ pc = "done" /\ state.game_over

\* the call returned or raised: s is the state left, e the exception
Called(s, e) ==
    /\ state' = s
    /\ error' = e
    /\ pc' = "called"
    /\ UNCHANGED <<impl, seed, engine, num_players, round_num, policies, remaining,
                   executive_action>>

DirectNominate ==
    /\ GameIsOver
    /\ \E chancellor \in Choices(DOMAIN state.players) :
        LET r == nominate_chancellor(num_players, state, chancellor)
        IN  Called(r.state, r.err)

DirectElection ==
    /\ GameIsOver
    /\ \E ja \in 0..num_players :
        LET r == conduct_election(seed, state,
                                  Repeat("ja", ja) \o Repeat("nein", num_players - ja))
        IN  Called(r.state, r.err)

DirectDraw ==
    /\ GameIsOver
    /\ Called(draw_policies(seed, state, 3).state, "none")

DirectDiscard ==
    /\ GameIsOver
    /\ \E discarded \in {"liberal", "fascist"} :
        LET r == president_discard_policy(state, <<"liberal", "fascist", "fascist">>, discarded)
        IN  Called(r.state, r.err)

DirectEnact ==
    /\ GameIsOver
    /\ \E enacted \in {"liberal", "fascist"} :
        LET r == chancellor_enact_policy(num_players, state, <<"liberal", "fascist">>, enacted)
        IN  Called(r.state, r.err)

DirectExecute ==
    /\ GameIsOver
    /\ \E target \in Choices(Living(state)) : Called(execute_player(state, target), "none")

DirectInvestigate ==
    /\ GameIsOver
    /\ \E target \in Choices(Living(state)) :
        Called(investigate_player(state, target).state, "none")

DirectPeek ==
    /\ GameIsOver
    /\ Called(peek_policies(state).state, "none")

DirectSpecialElection ==
    /\ GameIsOver
    /\ \E nominee \in Choices(Living(state)) : Called(special_election(state, nominee), "none")

NextDirect ==
    \/ Next
    \/ DirectNominate
    \/ DirectElection
    \/ DirectDraw
    \/ DirectDiscard
    \/ DirectEnact
    \/ DirectExecute
    \/ DirectInvestigate
    \/ DirectPeek
    \/ DirectSpecialElection

SpecDirect == Init /\ [][NextDirect]_vars

----------------------------------------------------------------------------
(* Claims *)

\* the tokens a government holds between draw_policies and the enactment
InHand ==
    IF pc = "discard" THEN policies
    ELSE IF pc = "enact" THEN remaining
    ELSE <<>>

TokenCount(s) ==
    Len(s.draw_pile) + Len(s.discard_pile) + s.liberal_policies + s.fascist_policies

\* C1 as stated: after every engine operation the draw pile, the discard
\* pile and the two policy counts add up to 17.
C1_Claim == impl = "game" => TokenCount(state) = 17

\* C1, amended: after every engine operation the draw pile, the discard
\* pile, the two policy counts and the tokens drawn and not yet discarded or
\* enacted add up to 17 (so the four terms alone give 14 after
\* draw_policies(3), 15 after president_discard_policy and 17 whenever no
\* legislative session is in progress); a chaos-enacted token is counted as
\* enacted and is not added to the discard pile.
C1_TokensConserved == impl = "game" => TokenCount(state) + Len(InHand) = 17

\* a chaos enactment has happened: one policy is enacted and no government
\* has ever enacted one
C1_Witness ==
    /\ impl = "game"
    /\ state.liberal_policies + state.fascist_policies = 1
    /\ state.previous_president = NoPlayer
    /\ Len(state.draw_pile) = 16
    /\ state.discard_pile = <<>>

\* C2: once game_over is true, every further mutating operation fails (any
\* exception is taken for the game-already-over error) and leaves the whole
\* game state unchanged.
C2_Claim ==
    [][(GameIsOver /\ pc' = "called") => (error' # "none" /\ state' = state)]_vars

HitlerAlive(s) ==
    \E i \in DOMAIN s.players : s.players[i].role = "hitler" /\ s.players[i].is_alive

MasterSpyAlive(e) ==
    \E p \in Range(e.player_names) : e.roles[p] = "Master Spy"

\* the step is an accepted election of the new engine that elects Hitler
\* chancellor
HitlerElected ==
    /\ pc = "election"
    /\ state'.current_government.is_elected
    /\ state'.players[state'.current_government.chancellor].role = "hitler"

\* the step is a passed vote of the legacy controller
LegacyVotePassed ==
    /\ pc = "legacy_loop" /\ ~engine.game_over
    /\ pc' \in {"legacy_loop", "legacy_draw"}
    /\ engine'.chancellor # NoPlayer

\* the step is a failed vote of the legacy controller
LegacyVoteFailed ==
    /\ pc = "legacy_loop" /\ ~engine.game_over
    /\ pc' = "legacy_loop"
    /\ engine'.chancellor = NoPlayer

MasterSpyElected == LegacyVotePassed /\ engine.roles[engine'.chancellor] = "Master Spy"

C4_WitnessEarly ==
    /\ impl = "game"
    /\ pc = "draw"
    /\ state.fascist_policies < 3
    /\ state.players[state.current_government.chancellor].role = "hitler"

\* C5: an election that elects Hitler chancellor with at least 3 fascist
\* policies enacted returns with the game over and the fascists the winner,
\* the round ends without a legislative session, and from then on no pile
\* and no policy count changes (both drivers).
C5_NoSessionAfterHitler ==
    [][ /\ impl = "game" =>
            /\ (~state.game_over /\ HitlerElected /\ state.fascist_policies >= 3)
                    => /\ state'.game_over /\ state'.winner = "fascist"
                       /\ pc' = "loop"
                       /\ state'.draw_pile = state.draw_pile
                       /\ state'.discard_pile = state.discard_pile
            /\ state.game_over
                    => /\ pc' \in {"loop", "done"}
                       /\ state'.draw_pile = state.draw_pile
                       /\ state'.discard_pile = state.discard_pile
                       /\ state'.liberal_policies = state.liberal_policies
                       /\ state'.fascist_policies = state.fascist_policies
        /\ impl = "legacy" =>
            /\ (MasterSpyElected /\ engine.red_policies_enacted >= 3)
                    => /\ engine'.game_over /\ engine'.winner = "Spies"
                       /\ pc' = "legacy_loop"
                       /\ engine'.deck = engine.deck
                       /\ engine'.discard_pile = engine.discard_pile
            /\ engine.game_over
                    => /\ pc' \in {"legacy_loop", "legacy_done"}
                       /\ engine'.deck = engine.deck
                       /\ engine'.discard_pile = engine.discard_pile
                       /\ engine'.blue_policies_enacted = engine.blue_policies_enacted
                       /\ engine'.red_policies_enacted = engine.red_policies_enacted
      ]_vars

\* run_game has returned after the election of Hitler ended the game
C5_Witness ==
    /\ impl = "game"
    /\ pc = "done"
    /\ state.winner = "fascist"
    /\ state.fascist_policies < 6
    /\ state.current_government.is_elected
    /\ state.players[state.current_government.chancellor].role = "hitler"

C7_Claim ==
    (impl = "game" /\ pc = "loop" /\ ~state.game_over) =>
        get_eligible_chancellors(num_players, state) =
            { i \in Living(state) :
                /\ i # state.current_president_index
                /\ i # state.previous_chancellor
                /\ (Cardinality(Living(state)) > 5 => i # state.previous_president) }

\* C8 as stated: conduct_election accepts a ballot list exactly when it holds
\* one ballot per living player.
C8_Claim ==
    (impl = "game" /\ pc = "election") =>
        \A k \in 0..num_players :
            (conduct_election(seed, state, Repeat("ja", k)).err = "none")
                <=> (k = Cardinality(Living(state)))

\* the ballots of the living players, ja of them Ja
Ballots(s, ja) == Repeat("ja", ja) \o Repeat("nein", Cardinality(Living(s)) - ja)

\* C9 as stated: for every split of the living players' ballots the
\* government is elected iff Ja outnumbers Nein; an elected government is
\* marked elected and the phase is the legislative session (the game-over
\* phase when the election of Hitler ends the game, C5); the legacy rule
\* ja > living/2 decides the same way.
C9_Claim ==
    /\ (impl = "game" /\ pc = "election") =>
        \A ja \in 0..Cardinality(Living(state)) :
            LET r == conduct_election(seed, state, Ballots(state, ja))
            IN  /\ r.elected <=> (ja > Cardinality(Living(state)) - ja)
                /\ r.elected =>
                    /\ r.state.current_government.is_elected
                    /\ r.state.phase = IF r.state.game_over THEN "game_over"
                                       ELSE "legislative_session"
    /\ (impl = "legacy" /\ pc = "legacy_loop") =>
        \A ja \in 0..Len(engine.player_names) :
            vote_passes(ja, engine) <=> (ja > Len(engine.player_names) - ja)

\* the election of the step was accepted and rejected the government
Rejected ==
    /\ pc = "election"
    /\ error' = "none"
    /\ ~state'.current_government.is_elected

\* the election of the step was accepted and elected the government
Elected ==
    /\ pc = "election"
    /\ state'.current_government.is_elected

\* C10: a successful election leaves the tracker at 0; a rejection raises it
\* by 1, and the rejection that brings it to 3 enacts the top token of the
\* draw pile and leaves the tracker at 0; no other rejection and no other
\* step enacts a token that way or changes the tracker; the tracker is in
\* 0..2 in every state (both drivers).
C10_Tracker ==
    [][ /\ impl = "game" =>
            /\ state.election_tracker \in 0..2 /\ state'.election_tracker \in 0..2
            /\ Elected => state'.election_tracker = 0
            /\ (Rejected /\ state.election_tracker < 2) =>
                    /\ state'.election_tracker = state.election_tracker + 1
                    /\ TokenCount(state') = TokenCount(state)
                    /\ state'.draw_pile = state.draw_pile
                    /\ state'.liberal_policies = state.liberal_policies
                    /\ state'.fascist_policies = state.fascist_policies
            /\ (Rejected /\ state.election_tracker = 2) =>
                    /\ state'.election_tracker = 0
                    /\ state.draw_pile # <<>>
                    /\ state'.draw_pile = Tail(state.draw_pile)
                    /\ state'.discard_pile = state.discard_pile
                    /\ state'.liberal_policies = state.liberal_policies
                            + (IF Head(state.draw_pile) = "liberal" THEN 1 ELSE 0)
                    /\ state'.fascist_policies = state.fascist_policies
                            + (IF Head(state.draw_pile) = "fascist" THEN 1 ELSE 0)
            /\ ~(Elected \/ Rejected) => state'.election_tracker = state.election_tracker
        /\ impl = "legacy" =>
            /\ engine.election_tracker \in 0..2 /\ engine'.election_tracker \in 0..2
            /\ LegacyVotePassed => engine'.election_tracker = 0
            /\ (LegacyVoteFailed /\ engine.election_tracker < 2) =>
                    /\ engine'.election_tracker = engine.election_tracker + 1
                    /\ engine'.deck = engine.deck
                    /\ engine'.blue_policies_enacted = engine.blue_policies_enacted
                    /\ engine'.red_policies_enacted = engine.red_policies_enacted
            /\ (LegacyVoteFailed /\ engine.election_tracker = 2) =>
                    /\ engine'.election_tracker = 0
                    /\ engine.deck # <<>>
                    /\ engine'.deck = Tail(engine.deck)
                    /\ engine'.discard_pile = engine.discard_pile
                    /\ engine'.blue_policies_enacted = engine.blue_policies_enacted
                            + (IF Head(engine.deck) = "Blue" THEN 1 ELSE 0)
                    /\ engine'.red_policies_enacted = engine.red_policies_enacted
                            + (IF Head(engine.deck) = "Red" THEN 1 ELSE 0)
            /\ ~(LegacyVotePassed \/ LegacyVoteFailed)
                    => engine'.election_tracker = engine.election_tracker
      ]_vars

\* two chaos enactments have happened: six rejections in a row from the start
C10_Witness ==
    /\ impl = "game"
    /\ state.election_tracker = 0
    /\ state.liberal_policies + state.fascist_policies = 2
    /\ Len(state.draw_pile) = 15
    /\ state.round_number = 7

\* C11 as stated: the rejection that brings the tracker to 3 clears the term
\* limits (previous_president, previous_chancellor, every is_term_limited
\* flag), so at the nomination that follows every living player other than
\* the new president is eligible (both drivers).
C11_Claim ==
    [][ /\ (impl = "game" /\ Rejected /\ state.election_tracker = 2 /\ ~state'.game_over) =>
            /\ state'.previous_president = NoPlayer
            /\ state'.previous_chancellor = NoPlayer
            /\ \A i \in DOMAIN state'.players : ~state'.players[i].is_term_limited
            /\ get_eligible_chancellors(num_players, state')
                    = Living(state') \ {state'.current_president_index}
        /\ (impl = "legacy" /\ LegacyVoteFailed /\ engine.election_tracker = 2
                /\ ~engine'.game_over) =>
            /\ engine'.previous_president = NoPlayer
            /\ engine'.previous_chancellor = NoPlayer
            /\ eligible_chancellors(engine')
                    = Range(engine'.player_names) \ {get_president(engine')}
      ]_vars

\* the first player of the set alive after seat i in the turn order 0..n-1,
\* wrapping over the full list
FirstLivingAfter(alive, i, n) ==
    LET steps == {k \in 1..n : ((i + k) % n) \in alive}
    IN  (i + (CHOOSE k \in steps : \A m \in steps : k <= m)) % n

\* the step of the legacy controller ends with advance_president and is not
\* a special election
LegacyRoundAdvance ==
    /\ ~engine'.game_over
    /\ \/ LegacyVoteFailed
       \/ /\ pc \in {"legacy_enact", "legacy_executive"}
          /\ pc' = "legacy_loop"
          /\ executive_action # "special_election"

\* C12 as stated: every round advance makes the first living player after
\* the outgoing president, in the original turn order and wrapping over the
\* full list, the new president (both engines).
C12_Claim ==
    [][ /\ (impl = "game" /\ ~state.game_over /\ ~state'.game_over
                /\ (state'.round_number # state.round_number
                      \/ state'.current_president_index # state.current_president_index)) =>
            state'.current_president_index
                = FirstLivingAfter(Living(state'), state.current_president_index, num_players)
        /\ (impl = "legacy" /\ LegacyRoundAdvance) =>
            get_president(engine')
                = FirstLivingAfter(Range(engine'.player_names), get_president(engine),
                                   num_players)
      ]_vars

----------------------------------------------------------------------------
(* Private information *)

\* the ids of the players, in list order
PlayerIds(s) == [i \in 1..NumPlayers(s) |-> i - 1]

\* get_game_info_for_player(player): the keys that depend on the roles; a
\* key that is not in the dict has its has_ flag FALSE
get_game_info_for_player(n, s, player) ==
    LET p == s.players[player]
        base == [role |-> p.role, party |-> p.party,
                 has_fascist_team |-> FALSE, fascist_team |-> <<>>,
                 has_hitler |-> FALSE, hitler |-> NoPlayer]
        info1 == IF is_fascist(p)
                 THEN [base EXCEPT
                        !.has_fascist_team = TRUE,
                        !.fascist_team = SelectSeq(PlayerIds(s), LAMBDA i : is_fascist(s.players[i])),
                        !.has_hitler = TRUE,
                        !.hitler = Head(SelectSeq(PlayerIds(s), LAMBDA i : is_hitler(s.players[i])))]
                 ELSE base
    IN  IF is_hitler(p) /\ n >= 7
        THEN [info1 EXCEPT
                !.has_fascist_team = TRUE,
                !.fascist_team = SelectSeq(PlayerIds(s), LAMBDA i : s.players[i].role = "fascist")]
        ELSE info1

\* _introduce_players: what the intro message tells the player besides the
\* own role: the team named, and Hitler's id when it is named
introduce_player(n, s, player) ==
    LET game_info == get_game_info_for_player(n, s, player)
    IN  [role |-> s.players[player].role,
         party |-> s.players[player].party,
         team |-> IF game_info.has_fascist_team THEN Range(game_info.fascist_team) ELSE {},
         hitler |-> IF game_info.has_hitler /\ s.players[player].role # "hitler"
                    THEN game_info.hitler ELSE NoPlayer]

\* setup_agents: the teammates given to the agent of name
teammates(e, name) ==
    LET names == [i \in 1..e.num_players |-> i - 1]
        spies == SelectSeq(names, LAMBDA p : e.roles[p] = "Spy")
        master_spy == Head(SelectSeq(names, LAMBDA p : e.roles[p] = "Master Spy"))
        role == e.roles[name]
    IN  IF role = "Spy"
        THEN SelectSeq(spies, LAMBDA p : p # name) \o <<master_spy>>
        ELSE IF role = "Master Spy"
        THEN (IF e.num_players <= 6 THEN spies ELSE <<>>)
        ELSE <<>>

\* the game with the roles (and parties) of players i and j exchanged
SwapRoles(s, i, j) ==
    [s EXCEPT !.players[i].role = s.players[j].role,
              !.players[i].party = s.players[j].party,
              !.players[j].role = s.players[i].role,
              !.players[j].party = s.players[i].party]

SwapLegacyRoles(e, i, j) ==
    [e EXCEPT !.roles[i] = e.roles[j], !.roles[j] = e.roles[i],
              !.party_membership[i] = e.party_membership[j],
              !.party_membership[j] = e.party_membership[i]]

RolePlayers(s, role) == {i \in DOMAIN s.players : s.players[i].role = role}

LegacyRolePlayers(e, role) == {p \in DOMAIN e.roles : e.roles[p] = role}

\* C13 as stated: with 7 or more players what Hitler is told names no
\* ordinary fascist and is the same when an ordinary fascist and a liberal
\* exchange roles; an ordinary fascist is told Hitler and all other
\* fascists; a liberal is told no teammate (both drivers).
C13_Claim ==
    /\ impl = "game" =>
        /\ \A h \in RolePlayers(state, "hitler") :
            num_players >= 7 =>
                /\ introduce_player(num_players, state, h).team
                        \cap RolePlayers(state, "fascist") = {}
                /\ \A i \in RolePlayers(state, "fascist"), j \in RolePlayers(state, "liberal") :
                        introduce_player(num_players, SwapRoles(state, i, j), h)
                            = introduce_player(num_players, state, h)
        /\ \A f \in RolePlayers(state, "fascist") :
                /\ RolePlayers(state, "fascist") \ {f}
                        \subseteq introduce_player(num_players, state, f).team
                /\ introduce_player(num_players, state, f).hitler
                        \in RolePlayers(state, "hitler")
        /\ \A l \in RolePlayers(state, "liberal") :
                /\ introduce_player(num_players, state, l).team = {}
                /\ introduce_player(num_players, state, l).hitler = NoPlayer
    /\ impl = "legacy" =>
        /\ \A h \in LegacyRolePlayers(engine, "Master Spy") :
            num_players >= 7 =>
                /\ teammates(engine, h) = <<>>
                /\ \A i \in LegacyRolePlayers(engine, "Spy"),
                      j \in LegacyRolePlayers(engine, "Loyalist") :
                        teammates(SwapLegacyRoles(engine, i, j), h) = teammates(engine, h)
        /\ \A f \in LegacyRolePlayers(engine, "Spy") :
                Range(teammates(engine, f))
                    = (LegacyRolePlayers(engine, "Spy") \ {f})
                        \cup LegacyRolePlayers(engine, "Master Spy")
        /\ \A l \in LegacyRolePlayers(engine, "Loyalist") : teammates(engine, l) = <<>>

----------------------------------------------------------------------------
(* Construction: SecretHitlerGame(player_names) and GameEngine(player_names) *)
(* for any number of names, then the executive-action lookup for any        *)
(* number of fascist policies                                               *)

MaxNames == 11      \* games are constructed with 0..MaxNames names

InitSetup ==
    /\ impl \in {"game", "legacy"}
    /\ seed \in 0..MaxSeed
    /\ num_players \in 0..MaxNames
    /\ state = NoGame
    /\ engine = NoEngine
    /\ pc = "new"
    /\ round_num = 0
    /\ policies = <<>>
    /\ remaining = <<>>
    /\ executive_action = "none"
    /\ error = "none"

\* SecretHitlerGame.__init__
NewGame ==
    /\ impl = "game" /\ pc = "new"
    /\ IF num_players < 5 \/ num_players > 10
       THEN /\ error' = "ValueError"
            /\ pc' = "failed"
            /\ state' = state
       ELSE /\ state' = initialize_game(seed, num_players)
            /\ pc' = "constructed"
            /\ error' = error
    /\ UNCHANGED <<impl, seed, num_players, engine, round_num, policies, remaining,
                   executive_action>>

\* GameEngine.__init__, setup_game
NewGameEngine ==
    /\ impl = "legacy" /\ pc = "new"
    /\ IF num_players \notin DOMAIN role_distribution
       THEN /\ error' = "ValueError"
            /\ pc' = "failed"
            /\ engine' = engine
       ELSE /\ engine' = setup_game(seed, num_players)
            /\ pc' = "constructed"
            /\ error' = error
    /\ UNCHANGED <<impl, seed, num_players, state, round_num, policies, remaining,
                   executive_action>>

\* GameConfig.get_executive_action(num_players, fascist_policies) for a game
\* with any number of fascist policies
LookupAction ==
    /\ impl = "game" /\ pc = "constructed"
    /\ \E fascist_policies \in 0..FASCIST_POLICIES_TO_WIN :
        /\ state' = [state EXCEPT !.fascist_policies = fascist_policies]
        /\ executive_action' = get_executive_action(num_players, fascist_policies)
    /\ pc' = "looked_up"
    /\ UNCHANGED <<impl, seed, num_players, engine, round_num, policies, remaining, error>>

\* GameEngine.get_executive_action() for an engine with any number of red
\* policies
LegacyLookupAction ==
    /\ impl = "legacy" /\ pc = "constructed"
    /\ \E r \in 0..FASCIST_POLICIES_TO_WIN :
        /\ engine' = [engine EXCEPT !.red_policies_enacted = r]
        /\ executive_action' =
                GameEngine_get_executive_action([engine EXCEPT !.red_policies_enacted = r])
    /\ pc' = "looked_up"
    /\ UNCHANGED <<impl, seed, num_players, state, round_num, policies, remaining, error>>

NextSetup ==
    \/ NewGame
    \/ NewGameEngine
    \/ LookupAction
    \/ LegacyLookupAction

SpecSetup == InitSetup /\ [][NextSetup]_vars

\* the role table of the rules: liberals, fascists, Hitler for 5..10 players
RoleTable ==
    5 :> <<3, 1, 1>> @@ 6 :> <<4, 1, 1>> @@ 7 :> <<4, 2, 1>> @@
    8 :> <<5, 2, 1>> @@ 9 :> <<5, 3, 1>> @@ 10 :> <<6, 3, 1>>

\* C14: for 5..10 names setup gives every player one role with the counts
\* of the table, exactly one Hitler, and a party that is liberal iff the
\* role is liberal; for fewer than 5 or more than 10 names setup fails and
\* no game exists (both engines).
C14_Setup ==
    /\ (impl = "game" /\ pc \in {"constructed", "looked_up"}) =>
        /\ num_players \in 5..10
        /\ DOMAIN state.players = 0..(num_players - 1)
        /\ Cardinality(RolePlayers(state, "liberal")) = RoleTable[num_players][1]
        /\ Cardinality(RolePlayers(state, "fascist")) = RoleTable[num_players][2]
        /\ Cardinality(RolePlayers(state, "hitler")) = 1
        /\ \A i \in DOMAIN state.players :
            /\ state.players[i].role \in {"liberal", "fascist", "hitler"}
            /\ state.players[i].party \in {"liberal", "fascist"}
            /\ state.players[i].party = "liberal" <=> state.players[i].role = "liberal"
    /\ (impl = "legacy" /\ pc \in {"constructed", "looked_up"}) =>
        /\ num_players \in 5..10
        /\ DOMAIN engine.roles = 0..(num_players - 1)
        /\ Cardinality(LegacyRolePlayers(engine, "Loyalist")) = RoleTable[num_players][1]
        /\ Cardinality(LegacyRolePlayers(engine, "Spy")) = RoleTable[num_players][2]
        /\ Cardinality(LegacyRolePlayers(engine, "Master Spy")) = 1
        /\ \A p \in DOMAIN engine.roles :
            /\ engine.roles[p] \in {"Loyalist", "Spy", "Master Spy"}
            /\ engine.party_membership[p] \in {"Loyalist", "Spy"}
            /\ engine.party_membership[p] = "Loyalist" <=> engine.roles[p] = "Loyalist"
    /\ (pc = "new" \/ pc = "failed") => (state = NoGame /\ engine = NoEngine)
    /\ pc = "failed" => (num_players \notin 5..10 /\ error = "ValueError")
    /\ (pc # "new" /\ num_players \notin 5..10) => pc = "failed"

\* a 10-player game has been set up
C14_Witness ==
    /\ impl = "game" /\ pc = "constructed" /\ num_players = 10
    /\ Cardinality(RolePlayers(state, "fascist")) = 3

\* setup with 11 names has failed
C14_WitnessFailed == pc = "failed" /\ num_players = 11 /\ impl = "game"

\* the fixed schedule of executive actions, in the new engine's names
Schedule(n, f) ==
    IF n \in 5..6
    THEN (IF f = 3 THEN "peek" ELSE IF f \in 4..5 THEN "execution" ELSE "none")
    ELSE IF n \in 7..8
    THEN (IF f = 2 THEN "investigate" ELSE IF f = 3 THEN "special_election"
          ELSE IF f \in 4..5 THEN "execution" ELSE "none")
    ELSE (IF f \in 1..2 THEN "investigate" ELSE IF f = 3 THEN "special_election"
          ELSE IF f \in 4..5 THEN "execution" ELSE "none")

\* the legacy engine's name of an action of the new engine
LegacyName(action) ==
    IF action = "peek" THEN "policy_peek"
    ELSE IF action = "investigate" THEN "investigate_loyalty"
    ELSE action

\* C15: for 5..10 players and 0..6 fascist policies the lookup returns the
\* fixed schedule and no action for every other pair, 6 policies included;
\* GameConfig.get_executive_action and GameEngine.get_executive_action
\* return corresponding actions on every input.
C15_Schedule ==
    /\ (impl = "game" /\ pc = "looked_up") =>
        /\ executive_action = Schedule(num_players, state.fascist_policies)
        /\ LegacyName(executive_action)
                = GameEngine_get_executive_action(
                    [num_players |-> num_players,
                     red_policies_enacted |-> state.fascist_policies])
    /\ (impl = "legacy" /\ pc = "looked_up") =>
        /\ executive_action = LegacyName(Schedule(num_players, engine.red_policies_enacted))
        /\ executive_action
                = LegacyName(get_executive_action(num_players, engine.red_policies_enacted))

\* the lookup for 9 players and 1 fascist policy has returned investigate
C15_Witness ==
    /\ impl = "game" /\ pc = "looked_up"
    /\ num_players = 9 /\ state.fascist_policies = 1
    /\ executive_action = "investigate"

\* the legacy lookup for 6 red policies has returned no action
C15_WitnessSix ==
    /\ impl = "legacy" /\ pc = "looked_up"
    /\ engine.red_policies_enacted = 6
    /\ executive_action = "none"

\* drawing count tokens from the piles draw and discard gave the hand drawn
\* and left the piles draw2 and discard2 as draw_policies is to do it
DrawnAsSpecified(count, draw, discard, drawn, draw2, discard2, kinds) ==
    /\ Len(drawn) = count
    /\ IF Len(draw) < count
       THEN /\ discard2 = <<>>
            /\ Len(draw2) = Len(draw) + Len(discard) - count
            /\ \A x \in kinds :
                Count(drawn, x) + Count(draw2, x) = Count(draw, x) + Count(discard, x)
       ELSE /\ discard2 = discard
            /\ drawn = SubSeq(draw, 1, count)
            /\ draw2 = SubSeq(draw, count + 1, Len(draw))

\* C16: in every reachable state of a running game draw_policies(3) and
\* draw_policies(1) return exactly that many tokens; iff the draw pile
\* holds fewer, the whole discard pile is merged into it and emptied before
\* the tokens are taken, otherwise they are the top of the draw pile and
\* the discard pile is untouched (both engines).
C16_Draw ==
    /\ (impl = "game" /\ ~state.game_over) =>
        \A count \in {1, 3} :
            LET d == draw_policies(seed, state, count)
            IN  DrawnAsSpecified(count, state.draw_pile, state.discard_pile, d.drawn,
                                 d.state.draw_pile, d.state.discard_pile,
                                 {"liberal", "fascist"})
    /\ (impl = "legacy" /\ ~engine.game_over) =>
        \A num \in {1, 3} :
            LET d == GameEngine_draw_policies(seed, engine, num)
            IN  DrawnAsSpecified(num, engine.deck, engine.discard_pile, d.drawn,
                                 d.engine.deck, d.engine.discard_pile, {"Blue", "Red"})

\* the president holds three tokens drawn after the discard pile was merged
\* into the draw pile
C16_Witness ==
    /\ impl = "game"
    /\ pc = "discard"
    /\ Len(policies) = 3
    /\ state.discard_pile = <<>>
    /\ state.previous_president # NoPlayer
    /\ Len(state.draw_pile) < 14

\* C17: a special election in which the president names a living player X
\* other than themself makes X the president of the next round, who
\* nominates: special_election(X) of the new engine at every state where
\* that action is due, and the legacy special election followed by the
\* advance that ends the round.
C17_SpecialElection ==
    /\ (impl = "game" /\ pc = "executive" /\ executive_action = "special_election") =>
        \A X \in ExecutiveTargets(state) :
            LET s == special_election(state, X)
            IN  /\ get_current_president(s).id = X
                /\ s.phase = "nomination"
                /\ ~s.game_over
                /\ \A c \in get_eligible_chancellors(num_players, s) :
                        nominate_chancellor(num_players, s, c).state.current_government.president
                            = X
    /\ (impl = "legacy" /\ pc = "legacy_executive" /\ executive_action = "special_election") =>
        \A X \in targets(engine) :
            LET e == GameEngine_advance_president(handle_special_election(engine, X))
            IN  /\ get_president(e) = X
                /\ ~e.game_over

\* the legacy round after a special election: the president is not the
\* successor of the previous president although nobody has been killed
C17_Witness ==
    /\ impl = "legacy"
    /\ pc = "legacy_loop"
    /\ engine.red_policies_enacted = 3
    /\ engine.chancellor # NoPlayer
    /\ Len(engine.player_names) = num_players
    /\ engine.previous_president # NoPlayer
    /\ get_president(engine) # (engine.previous_president + 1) % num_players

\* the new engine owes a special election
C17_WitnessDue ==
    /\ impl = "game" /\ pc = "executive" /\ executive_action = "special_election"

----------------------------------------------------------------------------
(* A caller that gives the engine an input it rejects, and retries *)

\* the call raised e and left the state s; the caller is back where the
\* decision was asked for
RejectedAt(place, s, e) ==
    /\ e # "none"
    /\ state' = s
    /\ error' = e
    /\ pc' = place
    /\ UNCHANGED <<impl, seed, engine, num_players, round_num, policies, remaining,
                   executive_action>>

\* nominate_chancellor with a player who is not eligible
InvalidNominate ==
    /\ impl = "game" /\ pc = "loop" /\ ~state.game_over
    /\ \E chancellor \in DOMAIN state.players :
        LET r == nominate_chancellor(num_players, state, chancellor)
        IN  RejectedAt("rejected_loop", r.state, r.err)

\* conduct_election with a wrong number of ballots
InvalidElection ==
    /\ impl = "game" /\ pc = "election"
    /\ \E k \in 0..(num_players + 1) :
        LET r == conduct_election(seed, state, Repeat("ja", k))
        IN  RejectedAt("rejected_election", r.state, r.err)

\* president_discard_policy with a hand of the wrong size or a token that
\* is not in the hand
InvalidDiscard ==
    /\ impl = "game" /\ pc = "discard"
    /\ \E pols \in {policies, Take(policies, 2), policies \o policies},
          discarded \in {"liberal", "fascist"} :
        LET r == president_discard_policy(state, pols, discarded)
        IN  RejectedAt("rejected_discard", r.state, r.err)

\* chancellor_enact_policy with a hand of the wrong size or a token that is
\* not in the hand
InvalidEnact ==
    /\ impl = "game" /\ pc = "enact"
    /\ \E pols \in {remaining, Take(remaining, 1), policies},
          enacted \in {"liberal", "fascist"} :
        LET r == chancellor_enact_policy(num_players, state, pols, enacted)
        IN  RejectedAt("rejected_enact", r.state, r.err)

\* the caller asks for another choice
Retry ==
    /\ pc \in {"rejected_loop", "rejected_election", "rejected_discard", "rejected_enact"}
    /\ pc' = IF pc = "rejected_loop" THEN "loop"
             ELSE IF pc = "rejected_election" THEN "election"
             ELSE IF pc = "rejected_discard" THEN "discard"
             ELSE "enact"
    /\ error' = "none"
    /\ UNCHANGED <<impl, seed, engine, num_players, state, round_num, policies, remaining,
                   executive_action>>

NextRetry ==
    \/ Next
    \/ InvalidNominate
    \/ InvalidElection
    \/ InvalidDiscard
    \/ InvalidEnact
    \/ Retry

SpecRetry == Init /\ [][NextRetry]_vars

\* C18: a call with a rejected input (ineligible nominee, wrong number of
\* ballots, hand of the wrong size, token not in the hand) raises before
\* anything is changed: the game state after the failed call is the state
\* before it, and the caller's retry finds the decision still open.
C18_RejectedUnchanged ==
    [][ /\ (error' # "none" /\ pc' # pc) =>
            /\ state' = state
            /\ error' = "ValueError"
            /\ policies' = policies /\ remaining' = remaining
        /\ (pc = "rejected_loop" /\ pc' = "loop") =>
            (state' = state /\ get_eligible_chancellors(num_players, state') # {})
        /\ (pc = "rejected_election" /\ pc' = "election") =>
            (state' = state /\ state'.phase = "election")
        /\ (pc = "rejected_discard" /\ pc' = "discard") =>
            (state' = state /\ Len(policies') = 3)
        /\ (pc = "rejected_enact" /\ pc' = "enact") =>
            (state' = state /\ Len(remaining') = 2)
      ]_vars

\* the president's discard of a token that is not in the hand was rejected
C18_Witness ==
    /\ pc = "rejected_discard"
    /\ error = "ValueError"
    /\ Len(state.discard_pile) > 0
    /\ Len(policies) = 3

\* C19 as stated: whenever game_over is true the phase is game_over, and
\* the step that ends the game neither advances the president nor
\* increments the round number.
C19_Claim ==
    [][ (impl = "game" /\ state'.game_over) =>
            /\ state'.phase = "game_over"
            /\ ~state.game_over =>
                /\ state'.current_president_index = state.current_president_index
                /\ state'.round_number = state.round_number
      ]_vars

\* C20 as stated: when a round of a running game ends, also after each of
\* the four executive actions, the round has advanced before the next
\* nomination: the government is cleared, the round number incremented, the
\* phase is nomination (never executive_action) and the president has moved
\* on from the president of the round.
C20_Claim ==
    [][ (impl = "game" /\ pc \in {"election", "enact", "executive"} /\ pc' = "loop"
            /\ ~state'.game_over) =>
            /\ state'.phase = "nomination"
            /\ state'.current_government = NoGovernment
            /\ state'.round_number = state.round_number + 1
            /\ state'.current_president_index # state.current_government.president
      ]_vars

\* the entry of the executive-action table for n players and f fascist
\* policies; the table has rows for 5..10 players only
TableEntry(n, f) == IF n \in 5..10 THEN Schedule(n, f) ELSE "none"

\* C21 as stated: the executive action triggered by a government's fascist
\* enactment is the table entry for the number of living players and the
\* new fascist count, and a liberal enactment triggers none (both engines).
C21_Claim ==
    [][ /\ (impl = "game" /\ pc = "enact" /\ ~state'.game_over) =>
            (IF pc' = "executive" THEN executive_action' ELSE "none")
                = IF state'.fascist_policies > state.fascist_policies
                  THEN TableEntry(Cardinality(Living(state')), state'.fascist_policies)
                  ELSE "none"
        /\ (impl = "legacy" /\ pc = "legacy_enact" /\ ~engine'.game_over) =>
            (IF pc' = "legacy_executive" THEN executive_action' ELSE "none")
                = IF engine'.red_policies_enacted > engine.red_policies_enacted
                  THEN LegacyName(TableEntry(Len(engine.player_names),
                                             engine'.red_policies_enacted))
                  ELSE "none"
      ]_vars

\* the three steps of a legislative session of the orchestrator
SessionDrawStep == impl = "game" /\ pc = "draw" /\ pc' = "discard"
SessionDiscardStep == impl = "game" /\ pc = "discard" /\ pc' = "enact"
SessionEnactStep == impl = "game" /\ pc = "enact" /\ pc' \in {"loop", "executive"}

\* the president's discard adds one token to the discard pile, the
\* chancellor's enactment one more, and neither touches the draw pile
DiscardsAddTwo ==
    /\ SessionDiscardStep \/ SessionEnactStep =>
        /\ state'.draw_pile = state.draw_pile
        /\ Len(state'.discard_pile) = Len(state.discard_pile) + 1

\* C22 as stated: a complete legislative session (draw, president's
\* discard, chancellor's enactment) leaves the draw pile exactly 3 smaller
\* and the discard pile exactly 2 larger than before the draw.
C22_Claim ==
    [][ /\ SessionDrawStep =>
            /\ Len(state'.draw_pile) = Len(state.draw_pile) - 3
            /\ Len(state'.discard_pile) = Len(state.discard_pile)
        /\ DiscardsAddTwo
      ]_vars

\* C22, amended: a session whose draw finds at least 3 tokens on the draw
\* pile leaves the draw pile 3 smaller and the discard pile 2 larger; a
\* session whose draw finds fewer reshuffles the discard pile into the draw
\* pile first and leaves draw + discard - 3 tokens on the draw pile and
\* exactly 2 on the discard pile.
C22_Session ==
    [][ /\ SessionDrawStep =>
            IF Len(state.draw_pile) >= 3
            THEN /\ Len(state'.draw_pile) = Len(state.draw_pile) - 3
                 /\ Len(state'.discard_pile) = Len(state.discard_pile)
            ELSE /\ Len(state'.draw_pile)
                       = Len(state.draw_pile) + Len(state.discard_pile) - 3
                 /\ Len(state'.discard_pile) = 0
        /\ DiscardsAddTwo
      ]_vars

\* a session that reshuffled is complete: two tokens on the discard pile
\* and at least five policies enacted
C22_Witness ==
    /\ impl = "game" /\ pc \in {"loop", "executive"}
    /\ Len(state.discard_pile) = 2
    /\ state.liberal_policies + state.fascist_policies >= 5
    /\ state.previous_president # NoPlayer

----------------------------------------------------------------------------
(* The first legislative session with every hand.  random.shuffle can     *)
(* leave the deck in any order: the first government of a game draws each  *)
(* of the eight hands of three tokens.                                     *)

\* all hands of k tokens of the two kinds
Hands(k, kinds) == [1..k -> kinds]

\* a deck of 6 + 11 tokens that random.shuffle left with hand on top
HandDeck(hand, lib, fas) ==
    hand \o Repeat(lib, INITIAL_LIBERAL_POLICIES - Count(hand, lib))
         \o Repeat(fas, INITIAL_FASCIST_POLICIES - Count(hand, fas))

\* a new game of the orchestrator whose shuffle left hand on top
InitHands ==
    /\ impl = "game"
    /\ engine = NoEngine
    /\ seed \in 0..MaxSeed
    /\ num_players \in 5..MaxN
    /\ \E hand \in Hands(3, {"liberal", "fascist"}) :
        state = [initialize_game(seed, num_players) EXCEPT
                    !.draw_pile = HandDeck(hand, "liberal", "fascist")]
    /\ pc = "loop"
    /\ round_num = 0
    /\ policies = <<>>
    /\ remaining = <<>>
    /\ executive_action = "none"
    /\ error = "none"

\* a new game of the legacy controller whose shuffle left hand on top
InitHandsLegacy ==
    /\ impl = "legacy"
    /\ state = NoGame
    /\ seed \in 0..MaxSeed
    /\ num_players \in 5..MaxN
    /\ \E hand \in Hands(3, {"Blue", "Red"}) :
        engine = [setup_game(seed, num_players) EXCEPT
                     !.deck = HandDeck(hand, "Blue", "Red")]
    /\ pc = "legacy_loop"
    /\ round_num = 1
    /\ policies = <<>>
    /\ remaining = <<>>
    /\ executive_action = "none"
    /\ error = "none"

\* the first round of the game, up to the end of its legislative session
NextHands ==
    \/ round_num = 0 /\ NominationPhase
    \/ ElectionPhase
    \/ LegislativeDraw
    \/ LegislativeDiscard
    \/ LegislativeEnact
    \/ round_num = 1 /\ LegacyElection
    \/ LegacyDraw
    \/ LegacyDiscard
    \/ LegacyEnact

SpecHands == (InitHands \/ InitHandsLegacy) /\ [][NextHands]_vars

\* b holds the tokens of a with one token of kind t taken out
MinusOne(a, b, t, kinds) ==
    \A x \in kinds : Count(b, x) = Count(a, x) - (IF x = t THEN 1 ELSE 0)

\* the legacy name of a token kind
LegacyToken(p) == IF p = "liberal" THEN "Blue" ELSE "Red"

\* C23: for every hand of 3 tokens and every kind in it,
\* president_discard_policy returns the hand minus one token of the
\* discarded kind (2 tokens) and appends one token of that kind to the
\* discard pile; for every hand of 2 tokens and every kind in it,
\* chancellor_enact_policy discards the hand minus one token of the enacted
\* kind and counts the enacted kind; no token is gained or lost; the legacy
\* list.remove calls split the same hands the same way.
C23_Partition ==
    [][ /\ impl = "game" =>
            /\ \A hand \in Hands(3, {"liberal", "fascist"}) : \A discarded \in Range(hand) :
                LET r == president_discard_policy(state, hand, discarded)
                IN  /\ r.err = "none"
                    /\ Len(r.remaining) = 2
                    /\ MinusOne(hand, r.remaining, discarded, {"liberal", "fascist"})
                    /\ r.state = [state EXCEPT !.discard_pile = Append(@, discarded)]
                    /\ [i \in 1..2 |-> LegacyToken(r.remaining[i])]
                         = RemoveFirst([i \in 1..3 |-> LegacyToken(hand[i])],
                                       LegacyToken(discarded))
            /\ \A hand \in Hands(2, {"liberal", "fascist"}) : \A enacted \in Range(hand) :
                LET r == chancellor_enact_policy(num_players, state, hand, enacted)
                    pile == r.state.discard_pile
                IN  /\ Len(pile) = Len(state.discard_pile) + 1
                    /\ Take(pile, Len(state.discard_pile)) = state.discard_pile
                    /\ MinusOne(hand, <<pile[Len(pile)]>>, enacted, {"liberal", "fascist"})
                    /\ r.state.liberal_policies = state.liberal_policies
                          + (IF enacted = "liberal" THEN 1 ELSE 0)
                    /\ r.state.fascist_policies = state.fascist_policies
                          + (IF enacted = "fascist" THEN 1 ELSE 0)
                    /\ LegacyToken(pile[Len(pile)])
                         = RemoveFirst([i \in 1..2 |-> LegacyToken(hand[i])],
                                       LegacyToken(enacted))[1]
        /\ (impl = "game" /\ pc = "discard") =>
            \E discarded \in Range(policies) :
                /\ remaining' = president_discard_policy(state, policies, discarded).remaining
                /\ state'.discard_pile = Append(state.discard_pile, discarded)
        /\ (impl = "legacy" /\ pc = "legacy_discard") =>
            \E discarded \in Range(policies) :
                /\ Len(policies') = 2
                /\ MinusOne(policies, policies', discarded, {"Blue", "Red"})
                /\ engine'.discard_pile = Append(engine.discard_pile, discarded)
        /\ (impl = "legacy" /\ pc = "legacy_enact") =>
            \E enacted \in Range(policies) :
                /\ Len(engine'.discard_pile) = Len(engine.discard_pile) + 1
                /\ MinusOne(policies, <<engine'.discard_pile[Len(engine'.discard_pile)]>>,
                            enacted, {"Blue", "Red"})
                /\ engine'.blue_policies_enacted = engine.blue_policies_enacted
                      + (IF enacted = "Blue" THEN 1 ELSE 0)
                /\ engine'.red_policies_enacted = engine.red_policies_enacted
                      + (IF enacted = "Red" THEN 1 ELSE 0)
      ]_vars

\* a hand of two liberal tokens and a fascist one: the president discarded a
\* liberal token, the chancellor enacted the other and discarded the fascist
C23_Witness ==
    /\ impl = "game" /\ pc \in {"loop", "executive"}
    /\ state.discard_pile = <<"liberal", "fascist">>
    /\ state.liberal_policies = 1 /\ state.fascist_policies = 0
    /\ Len(state.draw_pile) = 14

\* the president held three fascist tokens: one discarded, two passed on
C23_WitnessSame ==
    /\ impl = "game" /\ pc = "enact"
    /\ policies = <<"fascist", "fascist", "fascist">>
    /\ remaining = <<"fascist", "fascist">>
    /\ state.discard_pile = <<"fascist">>

----------------------------------------------------------------------------
(* Decision operations called outside their phase: a caller of the engine  *)
(* invokes one of the four operations while the game is in another phase.  *)

\* the game is running, between two steps of the orchestrator, and not in
\* the phase named
OutOfPhase(own) ==
    /\ impl = "game" /\ pc \in {"loop", "election", "draw", "discard", "enact", "executive"}
    /\ ~state.game_over
    /\ state.phase # own

PhaseNominate ==
    /\ OutOfPhase("nomination")
    /\ \E chancellor \in Choices(get_eligible_chancellors(num_players, state)) :
        LET r == nominate_chancellor(num_players, state, chancellor)
        IN  Called(r.state, r.err)

PhaseElection ==
    /\ OutOfPhase("election")
    /\ \E ja \in {0, num_players} :
        LET r == conduct_election(seed, state,
                                  Repeat("ja", ja) \o Repeat("nein", num_players - ja))
        IN  Called(r.state, r.err)

PhaseDiscard ==
    /\ OutOfPhase("legislative_session")
    /\ \E discarded \in {"liberal", "fascist"} :
        LET r == president_discard_policy(state, <<"liberal", "fascist", "fascist">>, discarded)
        IN  Called(r.state, r.err)

PhaseEnact ==
    /\ OutOfPhase("legislative_session")
    /\ \E enacted \in {"liberal", "fascist"} :
        LET r == chancellor_enact_policy(num_players, state, <<"liberal", "fascist">>, enacted)
        IN  Called(r.state, r.err)

NextPhase ==
    \/ Next
    \/ PhaseNominate
    \/ PhaseElection
    \/ PhaseDiscard
    \/ PhaseEnact

SpecPhase == Init /\ [][NextPhase]_vars

\* C24 as stated: a decision operation (nominate_chancellor,
\* conduct_election, president_discard_policy, chancellor_enact_policy)
\* called in a phase other than its own fails and changes nothing.
C24_Claim ==
    [][ (impl = "game" /\ ~state.game_over /\ pc # "called" /\ pc' = "called") =>
            /\ error' # "none"
            /\ state' = state
      ]_vars

\* the tokens the legacy president is shown: self.engine.deck[:3]
top_3(e) == Take(e.deck, 3)

\* C25 as stated: in every state where a policy peek is triggered the peek
\* reveals exactly the top 3 tokens of the draw pile in order and removes
\* nothing: draw pile, discard pile, both policy counts, the election
\* tracker and the living players are unchanged.
C25_Claim ==
    /\ (impl = "game" /\ pc = "executive" /\ executive_action = "peek") =>
        LET r == peek_policies(state)
        IN  /\ Len(r.peeked) = 3
            /\ r.peeked = SubSeq(state.draw_pile, 1, 3)
            /\ r.state.draw_pile = state.draw_pile
            /\ r.state.discard_pile = state.discard_pile
            /\ r.state.liberal_policies = state.liberal_policies
            /\ r.state.fascist_policies = state.fascist_policies
            /\ r.state.election_tracker = state.election_tracker
            /\ Living(r.state) = Living(state)
    /\ (impl = "legacy" /\ pc = "legacy_executive" /\ executive_action = "policy_peek") =>
        /\ Len(top_3(engine)) = 3
        /\ top_3(engine) = SubSeq(engine.deck, 1, 3)

----------------------------------------------------------------------------
(* Termination.  run_game is a loop that keeps running on its own: every   *)
(* agent answers and every step that can be taken is taken.                *)

SpecFair == SpecAll /\ WF_vars(NextAll)

\* run_game has returned with the game over and a winner
Finished ==
    \/ impl = "game" /\ pc = "done" /\ state.game_over /\ state.winner # "none"
    \/ impl = "legacy" /\ pc = "legacy_done" /\ engine.game_over /\ engine.winner # "none"

\* the game is still running after the last round explored
Explored ==
    \/ impl = "game" /\ pc = "loop" /\ ~state.game_over /\ round_num >= MaxRounds
    \/ impl = "legacy" /\ pc = "legacy_loop" /\ ~engine.game_over /\ round_num > MaxRounds

\* C26 as stated: every game the loop drives reaches game_over with a
\* winner: no engine operation raises and stops the loop, and the loop is
\* not left without a winner.
C26_Claim ==
    /\ [](pc \notin {"crashed", "legacy_crashed"})
    /\ [](impl = "game" /\ pc = "done" => state.game_over /\ state.winner # "none")
    /\ <>(Finished \/ Explored)

\* C27: in every state in which a game that is not over is about to
\* nominate, the set of eligible chancellors is non-empty, so the
\* orchestrator's 'no eligible chancellors' branch (and the legacy
\* controller's failing choice from an empty list) is never taken.
C27_Eligible ==
    /\ (impl = "game" /\ pc = "loop" /\ ~state.game_over) =>
        get_eligible_chancellors(num_players, state) # {}
    /\ (impl = "legacy" /\ pc = "legacy_loop" /\ ~engine.game_over) =>
        eligible_chancellors(engine) # {}
    /\ pc # "legacy_crashed"

\* a nomination with a single eligible chancellor: three players are left
\* of five
C27_Witness ==
    /\ impl = "legacy" /\ pc = "legacy_loop" /\ ~engine.game_over
    /\ Len(engine.player_names) = 3
    /\ Cardinality(eligible_chancellors(engine)) = 1

\* a nomination of the new engine after an execution, four players alive
C27_WitnessFour ==
    /\ impl = "game" /\ pc = "loop" /\ ~state.game_over
    /\ Cardinality(Living(state)) = 4
    /\ Cardinality(get_eligible_chancellors(num_players, state)) = 2

\* C28 as stated: under any sequence of engine operations game_over never
\* returns to false and the winner, once set, never changes.
C28_Claim ==
    [][ /\ (impl = "game" /\ state.game_over) =>
            /\ state'.game_over
            /\ state.winner # "none" => state'.winner = state.winner
        /\ (impl = "legacy" /\ engine.game_over) =>
            /\ engine'.game_over
            /\ engine.winner # "none" => engine'.winner = engine.winner
      ]_vars

\* the step is the third rejection in a row: the chaos enactment
ChaosStep == impl = "game" /\ Rejected /\ state.election_tracker = 2
LegacyChaosStep == impl = "legacy" /\ LegacyVoteFailed /\ engine.election_tracker = 2

\* C29: a policy enacted by chaos triggers no executive action and never
\* leads to the EXECUTIVE_ACTION phase, whatever the fascist count it
\* reaches; the next step is a nomination by the next living president, or
\* the game is over (both engines).
C29_Chaos ==
    [][ /\ ChaosStep =>
            /\ state'.liberal_policies + state'.fascist_policies
                   = state.liberal_policies + state.fascist_policies + 1
            /\ pc' = "loop"
            /\ executive_action' = "none"
            /\ state'.phase # "executive_action"
            /\ \/ state'.game_over
               \/ /\ state'.phase = "nomination"
                  /\ state'.current_government = NoGovernment
                  /\ state'.current_president_index
                        = FirstLivingAfter(Living(state'), state.current_president_index,
                                           num_players)
        /\ LegacyChaosStep =>
            /\ engine'.blue_policies_enacted + engine'.red_policies_enacted
                   = engine.blue_policies_enacted + engine.red_policies_enacted + 1
            /\ pc' = "legacy_loop"
            /\ executive_action' = "none"
            /\ \/ engine'.game_over
               \/ get_president(engine')
                     = FirstLivingAfter(Range(engine'.player_names), get_president(engine),
                                        num_players)
      ]_vars

\* the legacy controller is back at the nomination after a chaos enactment
\* (the term limits are cleared) that brought the red count to a value with
\* an executive action in the table
C29_Witness ==
    /\ impl = "legacy" /\ pc = "legacy_loop" /\ ~engine.game_over
    /\ engine.previous_president = NoPlayer
    /\ engine.blue_policies_enacted = 0
    /\ engine.red_policies_enacted >= 1
    /\ GameEngine_get_executive_action(engine) # "none"

\* C30 as stated: the tokens a policy peek reveals are the tokens, in the
\* same order, that the next legislative session's draw_policies(3) hands
\* to the next president, provided no chaos enactment comes in between:
\* drawing from the pile the peek left returns the peeked tokens, and no
\* step between sessions other than a chaos enactment touches the pile.
C30_Claim ==
    [][ /\ (impl = "game" /\ pc = "executive" /\ executive_action = "peek") =>
            LET r == peek_policies(state)
            IN  draw_policies(seed, r.state, 3).drawn = r.peeked
        /\ (impl = "legacy" /\ pc = "legacy_executive" /\ executive_action = "policy_peek") =>
            GameEngine_draw_policies(seed, engine, 3).drawn = top_3(engine)
        /\ (impl = "game" /\ pc \in {"loop", "election", "executive"} /\ ~ChaosStep) =>
            state'.draw_pile = state.draw_pile
        /\ (impl = "legacy" /\ pc \in {"legacy_loop", "legacy_executive"}
                /\ ~LegacyChaosStep) =>
            engine'.deck = engine.deck
      ]_vars

====
